---- MODULE Spec2Model ----
(***************************************************************************)
(* Model of discord_embed_manager.py: the JSON cell parser, the table to   *)
(* embed-specification builder, the embed renderer, the navigation view    *)
(* (EmbedNavigationView) and the display entry point (display_embeds).     *)
(*                                                                         *)
(* Strings are sequences of one-character strings, so that slicing,        *)
(* stripping, prefix tests and lengths are computed as Python computes     *)
(* them.  A JSON text is represented by what json.loads makes of it.       *)
(***************************************************************************)
EXTENDS Integers, Sequences, FiniteSets, TLC

VARIABLES
    \* ---- display_embeds (entry point) ----
    pc,               \* "start" | "fetching" | "active" | "ended" | "raised"
    json_string,      \* the json_string argument (a Text)
    refresh_callback, \* TRUE iff a refresh callback was supplied
    invoker,          \* interaction.user.id of the display_embeds interaction
    \* ---- EmbedNavigationView fields ----
    view,             \* TRUE once the view object has been constructed
    embeds_spec,      \* self.embeds_spec
    current_page,     \* self.current_page (0-based)
    total_pages,      \* self.total_pages
    user_id,          \* self.user_id
    message,          \* TRUE iff self.message is set
    items,            \* the buttons built by update_buttons
    \* ---- discord.ui.View machinery and the message on the platform ----
    stopped,          \* the view's timeout has been dispatched
    expired,          \* on_timeout has removed the controls from the message
    inflight,         \* refresh_data invocations suspended in refresh_callback
    shown,            \* what the message displays: [embed, controls]
    notice,           \* the ephemeral text the last handler sent ("none": none)
    last,             \* the last handler that ran, with its inputs
    calls,            \* the calls awaited by the last handler (by display_embeds so far)
    \* ---- the pure functions applied to drawn inputs ----
    bpc,              \* "input" | "built"
    table,            \* the table handed to parse_embed_data
    built,            \* what parse_embed_data made of it
    parsed,           \* what parse_json_cell made of json_string
    rendered          \* what create_discord_embed made of each embed spec built

vars == <<pc, json_string, refresh_callback, invoker, view, embeds_spec, current_page,
          total_pages, user_id, message, items, stopped, expired, inflight,
          shown, notice, last, calls, bpc, table, built, parsed,
          rendered>>

ctlVars == <<pc, json_string, refresh_callback, invoker, view, embeds_spec, current_page,
             total_pages, user_id, message, items, stopped, expired, inflight,
             shown, notice, last, calls>>

pureVars == <<bpc, table, built, parsed, rendered>>

(***************************************************************************)
(* Limits written in parse_embed_data.                                     *)
(***************************************************************************)
MinCols == 7
TitleCap == 256
DescCap == 4096
AuthorCap == 256
FooterCap == 2048
NameCap == 256
ValueCap == 1024
EmbedCap == 6000
MaxFields == 25
FieldEnd == 57
FirstField == 7

(***************************************************************************)
(* Bounds of the model.                                                    *)
(***************************************************************************)
MaxRows == 2
MaxInflight == 2
MaxElems == 3

Min(a, b) == IF a <= b THEN a ELSE b
Max(a, b) == IF a >= b THEN a ELSE b

(***************************************************************************)
(* Strings.                                                                *)
(***************************************************************************)
Rep(c, n) == [i \in 1..n |-> c]

\* s[:n]
Slice(s, n) == SubSeq(s, 1, Min(Len(s), n))

\* s.startswith(p)
StartsWith(s, p) == Len(s) >= Len(p) /\ SubSeq(s, 1, Len(p)) = p

IsSpace(c) == c \in {" ", "\t", "\n"}

\* s.strip()
Strip(s) ==
    LET keep == {i \in 1..Len(s) : ~IsSpace(s[i])}
    IN  IF keep = {} THEN <<>>
        ELSE LET lo == CHOOSE i \in keep : \A j \in keep : i <= j
                 hi == CHOOSE i \in keep : \A j \in keep : i >= j
             IN  SubSeq(s, lo, hi)

Digits == <<"0", "1", "2", "3", "4", "5", "6", "7", "8", "9">>

IsDigit(c) == \E d \in 1..10 : Digits[d] = c

DigitVal(c) == (CHOOSE d \in 1..10 : Digits[d] = c) - 1

RECURSIVE NatStr(_)
\* str(n) for n >= 0
NatStr(n) == IF n < 10 THEN <<Digits[n + 1]>>
             ELSE NatStr(n \div 10) \o <<Digits[(n % 10) + 1]>>

\* str(n) for an int
IntStr(n) == IF n < 0 THEN <<"-">> \o NatStr(0 - n) ELSE NatStr(n)

RECURSIVE DigitsVal(_, _)
DigitsVal(s, acc) == IF s = <<>> THEN acc
                     ELSE DigitsVal(Tail(s), acc * 10 + DigitVal(Head(s)))

http == <<"h", "t", "t", "p", ":", "/", "/">>
https == <<"h", "t", "t", "p", "s", ":", "/", "/">>

(***************************************************************************)
(* Cell values, as json.loads delivers them.                               *)
(***************************************************************************)
StrCell(s) == [t |-> "str", s |-> s, n |-> 0]
IntCell(n) == [t |-> "int", s |-> <<>>, n |-> n]
NullCell == [t |-> "null", s |-> <<>>, n |-> 0]
BoolCell(b) == [t |-> "bool", s |-> <<>>, n |-> IF b THEN 1 ELSE 0]
InfCell == [t |-> "float", s |-> <<"i", "n", "f">>, n |-> 0]
NanCell == [t |-> "float", s |-> <<"n", "a", "n">>, n |-> 0]

\* str(cell)
Str(c) ==
    CASE c.t = "str" -> c.s
      [] c.t = "int" -> IntStr(c.n)
      [] c.t = "null" -> <<"N", "o", "n", "e">>
      [] c.t = "bool" -> IF c.n = 1 THEN <<"T", "r", "u", "e">>
                         ELSE <<"F", "a", "l", "s", "e">>
      [] c.t = "float" -> c.s

\* bool(cell)
Truthy(c) ==
    CASE c.t = "str" -> c.s # <<>>
      [] c.t = "int" -> c.n # 0
      [] c.t = "null" -> FALSE
      [] c.t = "bool" -> c.n = 1
      [] c.t = "float" -> TRUE

\* int(cell): how = "ok" (v is the value), "caught" (ValueError or TypeError),
\* "raised" (OverflowError, which parse_embed_data does not catch)
IntOf(c) ==
    CASE c.t = "str" ->
            LET u == Strip(c.s)
                neg == u # <<>> /\ Head(u) \in {"-", "+"}
                d == IF neg THEN Tail(u) ELSE u
            IN  IF d # <<>> /\ \A i \in 1..Len(d) : IsDigit(d[i])
                THEN [how |-> "ok",
                      v |-> IF neg /\ Head(u) = "-" THEN 0 - DigitsVal(d, 0)
                            ELSE DigitsVal(d, 0)]
                ELSE [how |-> "caught", v |-> 0]
      [] c.t = "int" -> [how |-> "ok", v |-> c.n]
      [] c.t = "bool" -> [how |-> "ok", v |-> c.n]
      [] c.t = "null" -> [how |-> "caught", v |-> 0]
      [] c.t = "float" -> IF c.s = <<"n", "a", "n">>
                          THEN [how |-> "caught", v |-> 0]
                          ELSE [how |-> "raised", v |-> 0]

\* an optional string: None or a str
None == [present |-> FALSE, s |-> <<>>]
Some(s) == [present |-> TRUE, s |-> s]

(***************************************************************************)
(* validate_url                                                            *)
(***************************************************************************)
validate_url_nocheck(url) ==
    IF ~Truthy(url) THEN None
    ELSE LET url_str == Strip(Str(url))
         IN  IF url_str = <<>> THEN None ELSE Some(url_str)

validate_url(url) ==
    IF ~Truthy(url) THEN None
    ELSE LET url_str == Strip(Str(url))
         IN  IF url_str = <<>> THEN None
             ELSE IF ~(StartsWith(url_str, http) \/ StartsWith(url_str, https))
                  THEN None
                  ELSE Some(url_str)

(***************************************************************************)
(* parse_embed_data                                                        *)
(***************************************************************************)
\* row[i] with Python's 0-based index
At(row, i) == row[i + 1]

\* a look-ahead that looks at the pair's own two columns only
all_remaining_empty_pair(row, name_idx) ==
    \A check_idx \in name_idx..(Min(Len(row), name_idx + 2) - 1) :
        ~Truthy(At(row, check_idx))

\* the look-ahead of the field loop: no truthy column in [name_idx, min(len, 57))
all_remaining_empty(row, name_idx) ==
    \A check_idx \in name_idx..(Min(Len(row), FieldEnd) - 1) :
        ~Truthy(At(row, check_idx))

RECURSIVE field_loop_skip(_, _, _, _)
\* a field loop that passes over a pair that does not fit and goes on
field_loop_skip(row, field_idx, total_chars, fields) ==
    LET name_idx == FirstField + field_idx * 2
        value_idx == FirstField + 1 + field_idx * 2
    IN  IF field_idx >= MaxFields THEN fields
        ELSE IF name_idx >= Len(row) THEN fields
        ELSE IF all_remaining_empty(row, name_idx) THEN fields
        ELSE LET name == Slice(Str(At(row, name_idx)), NameCap)
                 value == Slice(IF value_idx < Len(row)
                                THEN Str(At(row, value_idx)) ELSE <<>>, ValueCap)
                 field_chars == Len(name) + Len(value)
             IN  IF total_chars + field_chars > EmbedCap
                 THEN field_loop_skip(row, field_idx + 1, total_chars, fields)
                 ELSE field_loop_skip(row, field_idx + 1, total_chars + field_chars,
                                      Append(fields, [name |-> name, value |-> value]))

RECURSIVE field_loop(_, _, _, _)
\* the body of "for field_idx in range(25)", from field_idx on
field_loop(row, field_idx, total_chars, fields) ==
    LET name_idx == FirstField + field_idx * 2
        value_idx == FirstField + 1 + field_idx * 2
    IN  IF field_idx >= MaxFields THEN fields
        ELSE IF name_idx >= Len(row) THEN fields
        ELSE IF all_remaining_empty(row, name_idx) THEN fields
        ELSE LET name == Slice(Str(At(row, name_idx)), NameCap)
                 value == Slice(IF value_idx < Len(row)
                                THEN Str(At(row, value_idx)) ELSE <<>>, ValueCap)
                 field_chars == Len(name) + Len(value)
             IN  IF total_chars + field_chars > EmbedCap THEN fields
                 ELSE field_loop(row, field_idx + 1, total_chars + field_chars,
                                 Append(fields, [name |-> name, value |-> value]))

\* color = int(row[3]) if row[3] else 0, with ValueError/TypeError -> 0
color_of(row) ==
    IF ~Truthy(At(row, 3)) THEN [how |-> "ok", v |-> 0]
    ELSE LET r == IntOf(At(row, 3))
         IN  IF r.how = "caught" THEN [how |-> "ok", v |-> 0] ELSE r

\* one iteration of the row loop for a row of at least 7 columns
row_spec(row) ==
    LET title == Slice(Str(At(row, 0)), TitleCap)
        description == Slice(Str(At(row, 1)), DescCap)
        author == IF Truthy(At(row, 4))
                  THEN Some(Slice(Str(At(row, 4)), AuthorCap)) ELSE None
        footer == Slice(Str(At(row, 6)), FooterCap)
        total_chars == Len(title) + Len(description) + Len(footer)
                       + (IF author.present THEN Len(author.s) ELSE 0)
    IN  [title |-> title,
         description |-> description,
         title_url |-> validate_url(At(row, 2)),
         color |-> color_of(row).v,
         author |-> author,
         author_url |-> validate_url(At(row, 5)),
         footer |-> footer,
         fields |-> field_loop(row, 0, total_chars, <<>>)]

\* "if len(row) < 7: continue"
row_skipped(row) == Len(row) < MinCols

RECURSIVE row_loop(_, _)
row_loop(data, embeds) ==
    IF data = <<>> THEN [raised |-> FALSE, embeds |-> embeds]
    ELSE IF row_skipped(Head(data)) THEN row_loop(Tail(data), embeds)
    ELSE IF color_of(Head(data)).how = "raised"
         THEN [raised |-> TRUE, embeds |-> <<>>]
    ELSE row_loop(Tail(data), Append(embeds, row_spec(Head(data))))

\* returns the list of embed specs, or raises (raised = TRUE)
parse_embed_data(data) == row_loop(data, <<>>)

(***************************************************************************)
(* parse_json_cell.  A text is what json.loads makes of it: kind "none"    *)
(* (None), "empty" (the empty string), "garbage" (JSONDecodeError) or      *)
(* "json", whose value is a list (of elements that are lists of cells or   *)
(* are not lists) or some other value.                                     *)
(***************************************************************************)
RowVal(cells) == [t |-> "list", items |-> cells]
ScalarVal == [t |-> "scalar", items |-> <<>>]
ListVal(elems) == [t |-> "list", items |-> elems]
ObjectVal == [t |-> "object", items |-> <<>>]

NoText == [kind |-> "none", value |-> ScalarVal]
EmptyText == [kind |-> "empty", value |-> ScalarVal]
GarbageText == [kind |-> "garbage", value |-> ScalarVal]
JsonText(v) == [kind |-> "json", value |-> v]

\* the text of a table given as a sequence of rows
TableText(rows) == JsonText(ListVal([i \in 1..Len(rows) |-> RowVal(rows[i])]))

\* bool(json_string)
TextTruthy(text) == text.kind \in {"garbage", "json"}

\* a parser that drops the elements that are not lists
parse_json_cell_partial(cell_value) ==
    IF cell_value.kind # "json" THEN [ok |-> FALSE, data |-> <<>>]
    ELSE LET data == cell_value.value
         IN  IF data.t # "list" THEN [ok |-> FALSE, data |-> <<>>]
             ELSE LET rows == SelectSeq(data.items, LAMBDA e : e.t = "list")
                  IN  [ok |-> TRUE, data |-> [i \in 1..Len(rows) |-> rows[i].items]]

\* returns the data (ok = TRUE) or None (ok = FALSE)
parse_json_cell(cell_value) ==
    IF cell_value.kind # "json" THEN [ok |-> FALSE, data |-> <<>>]
    ELSE LET data == cell_value.value
         IN  IF data.t # "list" THEN [ok |-> FALSE, data |-> <<>>]
             ELSE IF \E i \in 1..Len(data.items) : data.items[i].t # "list"
                  THEN [ok |-> FALSE, data |-> <<>>]
                  ELSE [ok |-> TRUE,
                        data |-> [i \in 1..Len(data.items) |-> data.items[i].items]]

\* "if not data": None or the empty list
not_data(data) == ~data.ok \/ data.data = <<>>

(***************************************************************************)
(* create_discord_embed and the notice embeds                              *)
(***************************************************************************)
ZWSP == <<"<zwsp>">>

\* x or None
OrNone(s) == IF s = <<>> THEN None ELSE Some(s)

NoAuthor == [present |-> FALSE, name |-> <<>>, url |-> None]

render_field(field) ==
    LET tilde == StartsWith(field.name, <<"~">>)
        field_name == IF tilde THEN Tail(field.name) ELSE field.name
    IN  [name |-> IF field_name = <<>> THEN ZWSP ELSE field_name,
         value |-> IF field.value = <<>> THEN ZWSP ELSE field.value,
         inline |-> ~tilde]

RECURSIVE render_fields_all(_)
\* a field loop that does not skip the pairs that are empty on both sides
render_fields_all(fields) ==
    IF fields = <<>> THEN <<>>
    ELSE <<render_field(Head(fields))>> \o render_fields_all(Tail(fields))

RECURSIVE render_fields(_)
render_fields(fields) ==
    IF fields = <<>> THEN <<>>
    ELSE IF Head(fields).name = <<>> /\ Head(fields).value = <<>>
         THEN render_fields(Tail(fields))
         ELSE <<render_field(Head(fields))>> \o render_fields(Tail(fields))

create_discord_embed(embed_spec) ==
    [tag |-> "tile",
     title |-> OrNone(embed_spec.title),
     description |-> OrNone(embed_spec.description),
     url |-> embed_spec.title_url,
     color |-> embed_spec.color,
     author |-> IF embed_spec.author.present \/ embed_spec.author_url.present
                THEN [present |-> TRUE,
                      name |-> IF embed_spec.author.present
                               THEN embed_spec.author.s ELSE ZWSP,
                      url |-> embed_spec.author_url]
                ELSE NoAuthor,
     footer |-> OrNone(embed_spec.footer),
     fields |-> render_fields(embed_spec.fields)]

\* discord.Embed(title=..., description=..., color=...) of the fixed notices
NoticeEmbed(tag) ==
    [tag |-> tag, title |-> None, description |-> None, url |-> None, color |-> 0,
     author |-> NoAuthor, footer |-> None, fields |-> <<>>]

NoEmbed == NoticeEmbed("none")

TimeoutNotice ==
  <<"\n", "\n", "<stopwatch>", "<vs16>", " ", "V", "i", "e", "w", " ",
    "e", "x", "p", "i", "r", "e", "d", " ", "d", "u",
    "e", " ", "t", "o", " ", "i", "n", "a", "c", "t",
    "i", "v", "i", "t", "y", ".", " ", "P", "l", "e",
    "a", "s", "e", " ", "r", "e", "f", "r", "e", "s",
    "h", " ", "t", "o", " ", "c", "o", "n", "t", "i",
    "n", "u", "e", ".">>

\* on_timeout: the embed of the current page with the notice appended to its footer
timeout_embed(embed_spec) ==
    LET embed == create_discord_embed(embed_spec)
        original_footer == IF embed.footer.present THEN embed.footer.s ELSE <<>>
    IN  [embed EXCEPT !.footer = Some(original_footer \o TimeoutNotice)]

(***************************************************************************)
(* update_buttons                                                          *)
(***************************************************************************)
\* buttons whose next and last are never disabled
update_buttons_open(page, total, callback) ==
    [top_disabled |-> page = 0,
     prev_disabled |-> page = 0,
     label |-> NatStr(page + 1) \o <<"/">> \o NatStr(total),
     next_disabled |-> FALSE,
     bottom_disabled |-> FALSE,
     refresh |-> callback]

update_buttons(page, total, callback) ==
    [top_disabled |-> page = 0,
     prev_disabled |-> page = 0,
     label |-> NatStr(page + 1) \o <<"/">> \o NatStr(total),
     next_disabled |-> page >= total - 1,
     bottom_disabled |-> page >= total - 1,
     refresh |-> callback]

NoItems ==
    [top_disabled |-> FALSE, prev_disabled |-> FALSE, label |-> <<>>,
     next_disabled |-> FALSE, bottom_disabled |-> FALSE, refresh |-> FALSE]

\* view=self / view=None in a send or an edit
WithView(its) == [present |-> TRUE, items |-> its]
ViewNone == [present |-> FALSE, items |-> NoItems]

(***************************************************************************)
(* Inputs of the controller: the texts display_embeds is given and the     *)
(* refresh callback returns.                                               *)
(***************************************************************************)
\* the identities that press buttons, and the one that ran the command
Users == {"viewer", "other"}
Invoker == "viewer"

C(x) == StrCell(<<x>>)
E == StrCell(<<>>)

\* a row of exactly 7 columns with title t
RowT(t) == <<C(t), C("B"), E, C("0"), E, E, C("F")>>
ShortRow == <<C("s"), C("B")>>

Tab1 == <<RowT("A")>>
Tab2 == <<RowT("P"), RowT("Q")>>
Tab3 == <<RowT("X"), ShortRow, RowT("Y"), RowT("Z")>>
TabShort == <<ShortRow>>
TabInf == <<RowT("A"), <<C("A"), C("B"), E, InfCell, E, E, C("F")>>>>
\* one row whose footer fills the footer cap
TabLong == <<<<C("L"), C("B"), E, C("0"), E, E, StrCell(Rep("f", FooterCap))>>>>

\* the texts the refresh callback returns
FetchTexts ==
    {NoText, GarbageText, TableText(<<>>), TableText(TabShort), TableText(TabInf),
     TableText(Tab1), TableText(Tab2), TableText(Tab3)}

\* the texts display_embeds is called with
CtlTexts == FetchTexts \cup {EmptyText, JsonText(ScalarVal), TableText(TabLong)}

\* what awaiting refresh_callback() gives: an exception or a text
Raises == [raised |-> TRUE, text |-> NoText]
Returns(text) == [raised |-> FALSE, text |-> text]
FetchOutcomes == {Raises} \cup {Returns(text) : text \in FetchTexts}

\* the record of a handler run: its inputs and the page it started from
Ev(op, u, f, ok) ==
    [op |-> op, user |-> u, fetched |-> f, ok |-> ok, from |-> current_page]

(***************************************************************************)
(* Helpers of the view's handlers                                          *)
(***************************************************************************)
authorized_always(u, owner) == TRUE

\* "interaction.user.id != self.user_id" is the negation of this
authorized(u, owner) == u = owner

\* specs[page] with Python's indexing: ok = FALSE is an IndexError
PyIndex(specs, page) ==
    IF 0 <= page /\ page < Len(specs) THEN [ok |-> TRUE, i |-> page + 1]
    ELSE IF page < 0 /\ 0 - page <= Len(specs)
         THEN [ok |-> TRUE, i |-> Len(specs) + page + 1]
         ELSE [ok |-> FALSE, i |-> 0]

\* create_discord_embed(self.embeds_spec[self.current_page])
render_page(specs, page) ==
    LET at == PyIndex(specs, page)
    IN  IF at.ok THEN [ok |-> TRUE, embed |-> create_discord_embed(specs[at.i])]
        ELSE [ok |-> FALSE, embed |-> NoEmbed]

\* previous_page: "if self.current_page > 0"
has_previous(page) == page > 0

has_next_always(page, total) == TRUE

\* next_page: "if self.current_page < self.total_pages - 1"
has_next(page, total) == page < total - 1

\* a page count that is not recomputed: the count the view already has
page_count_kept(specs) == total_pages

\* "self.total_pages = len(embeds_spec)" / "= len(new_embeds_spec)"
page_count(specs) == Len(specs)

clamp_page_none(page, total) == page

clamp_page_zero(page, total) == 0

\* refresh_data: "if self.current_page >= self.total_pages: ... = total_pages - 1"
clamp_page(page, total) == IF page >= total THEN total - 1 ELSE page

nav_response_silent(moved) == IF moved THEN <<"response.edit_message">> ELSE <<>>

\* the response of a navigation handler: edit_message when it re-renders,
\* "else: await interaction.response.defer()" when it does not
nav_response(moved) ==
    IF moved THEN <<"response.edit_message">> ELSE <<"response.defer">>

\* events reach the handlers while the view is in the view store (its timeout has
\* not been dispatched) and the message carries its components
CanInteract == pc = "active" /\ ~stopped /\ shown.controls.present

\* the ephemeral "Not your view" answer of every handler
Reject(op, u) ==
    /\ notice' = "not_your_view"
    /\ calls' = <<"response.send_message">>
    /\ last' = Ev(op, u, Returns(NoText), TRUE)
    /\ UNCHANGED <<bpc, table, built, parsed, rendered, pc, json_string, refresh_callback, invoker,
                   view, embeds_spec, current_page, total_pages, user_id, message,
                   items, stopped, expired, inflight, shown>>

\* the common tail of the four navigation handlers when they re-render:
\* set the page, render it, update_buttons(), edit_message(embed, view=self)
Goto(op, u, page, ok) ==
    LET r == render_page(embeds_spec, page)
    IN  /\ current_page' = page
        /\ items' = IF r.ok THEN update_buttons(page, total_pages, refresh_callback)
                    ELSE items
        /\ shown' = IF r.ok /\ ok
                    THEN [embed |-> r.embed, controls |-> WithView(items')]
                    ELSE shown
        /\ last' = Ev(op, u, Returns(NoText), ok)
        /\ calls' = IF r.ok THEN nav_response(TRUE) ELSE <<>>
        /\ notice' = "none"
        /\ UNCHANGED <<bpc, table, built, parsed, rendered, pc, json_string, refresh_callback, invoker,
                       view, embeds_spec, total_pages, user_id, message, stopped,
                       expired, inflight>>

\* "await interaction.response.defer()" and nothing else
Defer(op, u) ==
    /\ last' = Ev(op, u, Returns(NoText), TRUE)
    /\ calls' = nav_response(FALSE)
    /\ notice' = "none"
    /\ UNCHANGED <<bpc, table, built, parsed, rendered, pc, json_string, refresh_callback, invoker,
                   view, embeds_spec, current_page, total_pages, user_id, message,
                   items, stopped, expired, inflight, shown>>

(***************************************************************************)
(* EmbedNavigationView handlers                                            *)
(***************************************************************************)
goto_top(u, ok) ==
    /\ CanInteract
    /\ IF ~authorized(u, user_id) THEN Reject("goto_top", u)
       ELSE Goto("goto_top", u, 0, ok)

previous_page(u, ok) ==
    /\ CanInteract
    /\ IF ~authorized(u, user_id) THEN Reject("previous_page", u)
       ELSE IF has_previous(current_page)
            THEN Goto("previous_page", u, current_page - 1, ok)
            ELSE Defer("previous_page", u)

next_page(u, ok) ==
    /\ CanInteract
    /\ IF ~authorized(u, user_id) THEN Reject("next_page", u)
       ELSE IF has_next(current_page, total_pages)
            THEN Goto("next_page", u, current_page + 1, ok)
            ELSE Defer("next_page", u)

goto_bottom(u, ok) ==
    /\ CanInteract
    /\ IF ~authorized(u, user_id) THEN Reject("goto_bottom", u)
       ELSE Goto("goto_bottom", u, total_pages - 1, ok)

\* refresh_data up to "json_string = await self.refresh_callback()"
refresh_data(u) ==
    /\ CanInteract
    /\ shown.controls.items.refresh
    /\ IF ~authorized(u, user_id) THEN Reject("refresh_data", u)
       ELSE IF ~refresh_callback THEN Defer("refresh_data", u)
       ELSE /\ inflight < MaxInflight
            /\ inflight' = inflight + 1
            /\ last' = Ev("refresh_data", u, Returns(NoText), TRUE)
            /\ calls' = <<"response.defer", "refresh_callback">>
            /\ notice' = "none"
            /\ UNCHANGED <<bpc, table, built, parsed, rendered, pc, json_string, refresh_callback,
                           invoker, view, embeds_spec, current_page, total_pages,
                           user_id, message, items, stopped, expired, shown>>

\* a refresh that ends in "await interaction.followup.send('Refresh failed...')"
\* before anything was assigned
RefreshFails(why) ==
    /\ notice' = why
    /\ calls' = <<"followup.send">>
    /\ UNCHANGED <<embeds_spec, total_pages, current_page, items, shown>>

\* refresh_data from the return of refresh_callback to its end;
\* f is what the callback gave, ok whether the final edit of the message succeeds
refresh_done(f, ok) ==
    /\ inflight > 0
    /\ inflight' = inflight - 1
    /\ UNCHANGED <<bpc, table, built, parsed, rendered, pc, json_string, refresh_callback, invoker,
                   view, user_id, message, stopped, expired>>
    /\ LET parsed_data == parse_json_cell(f.text)
           result == parse_embed_data(parsed_data.data)
           edits == ~f.raised /\ TextTruthy(f.text) /\ ~not_data(parsed_data)
                    /\ ~result.raised
       IN  last' = Ev("refresh_done", user_id, f, IF edits THEN ok ELSE TRUE)
    /\ LET parsed_data == parse_json_cell(f.text)
           result == parse_embed_data(parsed_data.data)
           new_embeds_spec == result.embeds
           new_total == page_count(new_embeds_spec)
           new_page == clamp_page(current_page, new_total)
           r == render_page(new_embeds_spec, new_page)
       IN  IF f.raised THEN RefreshFails("refresh_error")
           ELSE IF ~TextTruthy(f.text) THEN RefreshFails("refresh_no_data")
           ELSE IF not_data(parsed_data) THEN RefreshFails("refresh_invalid_json")
           ELSE IF result.raised THEN RefreshFails("refresh_error")
           ELSE IF new_embeds_spec = <<>>
                THEN /\ notice' = IF ok THEN "none" ELSE "refresh_error"
                     /\ calls' = IF ok THEN <<"edit_original_response">>
                                 ELSE <<"edit_original_response", "followup.send">>
                     /\ shown' = IF ok
                                 THEN [embed |-> NoticeEmbed("No Data: Nothing to display"),
                                       controls |-> ViewNone]
                                 ELSE shown
                     /\ UNCHANGED <<embeds_spec, total_pages, current_page, items>>
                ELSE /\ embeds_spec' = new_embeds_spec
                     /\ total_pages' = new_total
                     /\ current_page' = new_page
                     /\ items' = IF r.ok
                                 THEN update_buttons(new_page, new_total, refresh_callback)
                                 ELSE items
                     /\ shown' = IF r.ok /\ ok
                                 THEN [embed |-> r.embed, controls |-> WithView(items')]
                                 ELSE shown
                     /\ notice' = IF r.ok /\ ok THEN "none" ELSE "refresh_error"
                     /\ calls' = IF ~r.ok THEN <<"followup.send">>
                                 ELSE IF ok THEN <<"edit_original_response">>
                                 ELSE <<"edit_original_response", "followup.send">>

\* on_timeout, run once by the view when its timeout is dispatched;
\* ok is whether "await self.message.edit(embed=embed, view=None)" succeeds
on_timeout(ok) ==
    /\ pc = "active"
    /\ ~stopped
    /\ stopped' = TRUE
    /\ last' = Ev("on_timeout", user_id, Returns(NoText), ok)
    /\ LET at == PyIndex(embeds_spec, current_page)
           done == message /\ at.ok /\ ok
       IN  /\ shown' = IF done
                       THEN [embed |-> timeout_embed(embeds_spec[at.i]),
                             controls |-> ViewNone]
                       ELSE shown
           /\ expired' = done
           /\ calls' = IF message /\ at.ok THEN <<"message.edit">> ELSE <<>>
    /\ notice' = "none"
    /\ UNCHANGED <<bpc, table, built, parsed, rendered, pc, json_string, refresh_callback, invoker,
                   view, embeds_spec, current_page, total_pages, user_id, message,
                   items, inflight>>

(***************************************************************************)
(* display_embeds                                                          *)
(***************************************************************************)
\* "await interaction.followup.send(embed=<notice>, ephemeral=True); return"
DisplayEnds(tag) ==
    /\ pc' = "ended"
    /\ shown' = [embed |-> NoticeEmbed(tag), controls |-> ViewNone]
    /\ UNCHANGED <<view, embeds_spec, current_page, total_pages, user_id, message,
                   items>>

\* display_embeds from "if not json_string:" to its end, text being json_string;
\* ok is whether the send of the first embed succeeds
display_rest(op, text, ok) ==
    LET parsed_data == parse_json_cell(text)
        result == parse_embed_data(parsed_data.data)
        embeds == result.embeds
        sends == TextTruthy(text) /\ ~not_data(parsed_data) /\ ~result.raised
                 /\ embeds # <<>>
    IN  /\ last' = Ev(op, invoker, Returns(text), IF sends THEN ok ELSE TRUE)
        /\ calls' = IF TextTruthy(text) /\ ~not_data(parsed_data) /\ result.raised
                    THEN calls ELSE Append(calls, "followup.send")
        /\ IF ~TextTruthy(text) THEN DisplayEnds("Error: No data provided")
           ELSE IF not_data(parsed_data)
                THEN DisplayEnds("Error: Failed to parse JSON data")
           ELSE IF result.raised
                THEN /\ pc' = "raised"
                     /\ UNCHANGED <<view, embeds_spec, current_page, total_pages,
                                    user_id, message, items, shown>>
           ELSE IF embeds = <<>> THEN DisplayEnds("No Data: Nothing to display")
           ELSE /\ view' = TRUE
                /\ embeds_spec' = embeds
                /\ current_page' = 0
                /\ total_pages' = page_count(embeds)
                /\ user_id' = invoker
                /\ items' = update_buttons(0, page_count(embeds), refresh_callback)
                /\ message' = ok
                /\ pc' = IF ok THEN "active" ELSE "raised"
                /\ shown' = IF ok
                            THEN [embed |-> create_discord_embed(embeds[1]),
                                  controls |-> WithView(items')]
                            ELSE shown
        /\ UNCHANGED <<bpc, table, built, parsed, rendered, json_string, refresh_callback,
                       invoker, stopped, expired, inflight, notice>>

\* display_embeds from its call to "await refresh_callback()" or, when it does
\* not fetch, to its end
display_embeds(ok) ==
    /\ pc = "start"
    /\ IF ~TextTruthy(json_string) /\ refresh_callback
       THEN /\ ok
            /\ pc' = "fetching"
            /\ last' = Ev("display_embeds", invoker, Returns(NoText), TRUE)
            /\ calls' = <<"refresh_callback">>
            /\ UNCHANGED <<bpc, table, built, parsed, rendered, json_string, refresh_callback, invoker,
                           view, embeds_spec, current_page, total_pages, user_id,
                           message, items, stopped, expired, inflight, shown, notice>>
       ELSE display_rest("display_embeds", json_string, ok)

\* display_embeds from the return of refresh_callback to its end
display_fetched(f, ok) ==
    /\ pc = "fetching"
    /\ IF f.raised
       THEN /\ ok
            /\ last' = Ev("display_fetched", invoker, f, TRUE)
            /\ calls' = Append(calls, "followup.send")
            /\ DisplayEnds("Error: Failed to fetch data")
            /\ UNCHANGED <<bpc, table, built, parsed, rendered, json_string, refresh_callback, invoker,
                           stopped, expired, inflight, notice>>
       ELSE display_rest("display_fetched", f.text, ok)

(***************************************************************************)
(* test_command of the test bot                                            *)
(***************************************************************************)
\* the parameters of "async def display_embeds(...)"
display_embeds_parameters == {"interaction", "json_string", "refresh_callback"}

\* the arguments of the call in test_command: one positional, three by keyword
test_command_arguments ==
    {"interaction", "json_string", "refresh_callback", "additional_buttons"}

\* a call binds when every argument it passes is a parameter of the function;
\* otherwise Python raises TypeError before the function's body runs
binds(parameters, arguments) == arguments \subseteq parameters

\* the /test command: defer, then display_embeds(interaction, json_string=None,
\* refresh_callback=fetch_sheet_data, additional_buttons=add_test_button), up to
\* the first await inside display_embeds
test_command ==
    /\ pc = "start"
    /\ json_string = NoText
    /\ refresh_callback
    /\ last' = Ev("test_command", invoker, Returns(NoText), TRUE)
    /\ IF binds(display_embeds_parameters, test_command_arguments)
       THEN /\ pc' = "fetching"
            /\ calls' = <<"response.defer", "refresh_callback">>
       ELSE /\ pc' = "raised"
            /\ calls' = <<"response.defer">>
    /\ UNCHANGED <<bpc, table, built, parsed, rendered, json_string, refresh_callback,
                   invoker, view, embeds_spec, current_page, total_pages, user_id,
                   message, items, stopped, expired, inflight, shown, notice>>

(***************************************************************************)
(* The controller: one display_embeds call, then the events of its view    *)
(***************************************************************************)
NoBuild == [raised |-> FALSE, embeds |-> <<>>]
NoParse == [ok |-> FALSE, data |-> <<>>]

InitView ==
    /\ pc = "start"
    /\ view = FALSE
    /\ embeds_spec = <<>>
    /\ current_page = 0
    /\ total_pages = 0
    /\ user_id = "nobody"
    /\ message = FALSE
    /\ items = NoItems
    /\ stopped = FALSE
    /\ expired = FALSE
    /\ inflight = 0
    /\ shown = [embed |-> NoEmbed, controls |-> ViewNone]
    /\ notice = "none"
    /\ last = Ev("init", "nobody", Returns(NoText), TRUE)
    /\ calls = <<>>

Init ==
    /\ json_string \in CtlTexts
    /\ refresh_callback \in BOOLEAN
    /\ invoker = Invoker
    /\ InitView
    /\ bpc = "idle"
    /\ table = <<>>
    /\ built = NoBuild
    /\ parsed = NoParse
    /\ rendered = <<>>

Next ==
    \/ \E ok \in BOOLEAN : display_embeds(ok)
    \/ test_command
    \/ \E f \in FetchOutcomes, ok \in BOOLEAN : display_fetched(f, ok)
    \/ \E u \in Users, ok \in BOOLEAN : goto_top(u, ok)
    \/ \E u \in Users, ok \in BOOLEAN : previous_page(u, ok)
    \/ \E u \in Users, ok \in BOOLEAN : next_page(u, ok)
    \/ \E u \in Users, ok \in BOOLEAN : goto_bottom(u, ok)
    \/ \E u \in Users : refresh_data(u)
    \/ \E f \in FetchOutcomes, ok \in BOOLEAN : refresh_done(f, ok)
    \/ \E ok \in BOOLEAN : on_timeout(ok)

Spec == Init /\ [][Next]_vars

(***************************************************************************)
(* The builder applied to drawn tables                                     *)
(***************************************************************************)
S(s) == StrCell(s)
ftp == <<"f", "t", "p", ":", "/", "/">>

\* the second scenario of the documentation: an ftp link and one field pair
RowFtp ==
    <<C("T"), C("D"), S(ftp \o <<"x">>), C("1"), E, E, C("F"),
      S(<<"N", "1">>), S(<<"V", "1">>)>>

\* valid links, an integer color cell, an author
RowHttp ==
    <<C("T"), C("D"), S(http \o <<"x">>), IntCell(255), S(<<"A", "u">>),
      S(https \o <<"y">>), C("F")>>

\* a scheme after leading whitespace, a blank link, a numeric-string color
RowSpace ==
    <<C("T"), C("D"), S(<<" ">> \o http \o <<"x">>), S(<<" ", "1", "2">>), E,
      S(<<" ", " ">>), C("F")>>

\* a non-string link cell, a link that only resembles a scheme, a bad color
RowOdd ==
    <<IntCell(-7), NullCell, IntCell(5), C("z"), BoolCell(TRUE),
      S(<<"h", "t", "t", "p", "s", ":", "/">>), NanCell>>

\* every fixed field one character over its cap
RowCaps ==
    <<S(Rep("t", TitleCap + 1)), S(Rep("d", DescCap + 1)), E, E,
      S(Rep("a", AuthorCap + 1)), E, S(Rep("f", FooterCap + 1))>>

\* field pairs that run into the total cap: the second does not fit, the third would
RowFields ==
    <<C("T"), S(Rep("d", DescCap)), E, E, E, E, C("F"),
      C("N"), S(Rep("v", ValueCap + 1)),
      S(Rep("n", NameCap + 1)), S(Rep("v", ValueCap)),
      C("M"), C("W")>>

\* an empty pair followed by a full-width pair, then trailing empty columns
RowSparse ==
    <<C("T"), C("D"), E, E, E, E, C("F"),
      E, E, S(<<"~", "N">>), C("V"), E, E, E>>

\* a color cell that json.loads reads as float('inf')
RowInf == <<C("A"), C("B"), E, InfCell, E, E, C("F")>>

\* a full-width name one character over the cap once its "~" is counted, a pair
\* whose name is "~" alone with an empty value, and a pair after it
RowTilde ==
    <<C("T"), C("D"), E, E, E, E, C("F"),
      S(<<"~">> \o Rep("n", NameCap)), C("V"), C("~"), E, C("M"), C("W")>>

\* columns 7..56 all empty, then two cells at 57 and 58
RowBeyond == RowT("T") \o Rep(E, FieldEnd - FirstField) \o <<C("X"), C("Y")>>

\* columns 7..56 all filled, then two cells at 57 and 58
RowFull == RowT("T") \o Rep(C("n"), FieldEnd - FirstField) \o <<C("X"), C("Y")>>

\* only the last column below 57 is filled
RowLastOnly == RowT("T") \o Rep(E, FieldEnd - FirstField - 1) \o <<C("v")>>

\* cells that are falsy without being strings, then a pair, then falsy cells
RowZero ==
    <<C("T"), C("D"), E, E, E, E, C("F"),
      IntCell(0), NullCell, C("N"), IntCell(0), BoolCell(FALSE), NullCell, IntCell(0)>>

\* an author link without an author name, and a last pair that has only its name
RowLinkOnly == <<C("T"), C("D"), E, E, E, S(https \o <<"y">>), C("F"), C("N")>>

BuildRows ==
    {ShortRow, RowT("A"), RowFtp, RowHttp, RowSpace, RowOdd, RowCaps, RowFields,
     RowSparse, RowInf, RowTilde, RowBeyond, RowFull, RowLastOnly, RowZero,
     RowLinkOnly}

BuildTables == UNION {[1..n -> BuildRows] : n \in 0..MaxRows}

InitBuild ==
    /\ json_string = NoText
    /\ refresh_callback = FALSE
    /\ invoker = Invoker
    /\ InitView
    /\ bpc = "input"
    /\ table \in BuildTables
    /\ built = NoBuild
    /\ parsed = NoParse
    /\ rendered = <<>>

\* embeds = parse_embed_data(table)
build ==
    /\ bpc = "input"
    /\ built' = parse_embed_data(table)
    /\ bpc' = "built"
    /\ UNCHANGED <<table, parsed, rendered, pc, json_string, refresh_callback, invoker, view,
                   embeds_spec, current_page, total_pages, user_id, message, items,
                   stopped, expired, inflight, shown, notice, last, calls>>

\* embed = create_discord_embed(spec) for every spec built
render ==
    /\ bpc = "built"
    /\ ~built.raised
    /\ rendered' = [i \in 1..Len(built.embeds) |-> create_discord_embed(built.embeds[i])]
    /\ bpc' = "rendered"
    /\ UNCHANGED <<table, built, parsed, pc, json_string, refresh_callback, invoker,
                   view, embeds_spec, current_page, total_pages, user_id, message,
                   items, stopped, expired, inflight, shown, notice, last, calls>>

NextBuild == build \/ render

SpecBuild == InitBuild /\ [][NextBuild]_vars

(***************************************************************************)
(* The parser applied to drawn texts                                       *)
(***************************************************************************)
\* the elements of a top-level list: rows, and values that are not lists
ParseElems == {RowVal(RowT("A")), RowVal(ShortRow), RowVal(<<>>), ScalarVal, ObjectVal}

ParseTexts ==
    {NoText, EmptyText, GarbageText, JsonText(ScalarVal), JsonText(ObjectVal)}
    \cup {JsonText(ListVal(es)) :
              es \in UNION {[1..n -> ParseElems] : n \in 0..MaxElems}}

InitParse ==
    /\ json_string \in ParseTexts
    /\ refresh_callback = FALSE
    /\ invoker = Invoker
    /\ InitView
    /\ bpc = "text"
    /\ table = <<>>
    /\ built = NoBuild
    /\ parsed = NoParse
    /\ rendered = <<>>

\* data = parse_json_cell(json_string)
parse ==
    /\ bpc = "text"
    /\ parsed' = parse_json_cell(json_string)
    /\ bpc' = "parsed"
    /\ UNCHANGED <<table, built, rendered, pc, json_string, refresh_callback, invoker, view,
                   embeds_spec, current_page, total_pages, user_id, message, items,
                   stopped, expired, inflight, shown, notice, last, calls>>

NextParse == parse

SpecParse == InitParse /\ [][NextParse]_vars

(***************************************************************************)
(* Properties of the controller (checked under Spec)                       *)
(***************************************************************************)
NavOps == {"goto_top", "previous_page", "next_page", "goto_bottom"}
ControlOps == NavOps \cup {"refresh_data"}
RefreshFailures == {"refresh_error", "refresh_no_data", "refresh_invalid_json"}
NoDataTag == "No Data: Nothing to display"

\* the tile list a fetched result parses and builds to (<<>> when it does not)
FetchedTiles(f) ==
    LET parsed_data == parse_json_cell(f.text)
        result == parse_embed_data(parsed_data.data)
    IN  IF f.raised \/ ~TextTruthy(f.text) \/ ~parsed_data.ok \/ result.raised
        THEN <<>>
        ELSE result.embeds

\* C1: in every reachable state of a constructed view, whatever navigation,
\* refresh (successful, failed or empty) and expiry events have run and however
\* they interleaved, 0 <= current_page <= len(embeds_spec) - 1.
IndexInRange ==
    view => (0 <= current_page /\ current_page <= Len(embeds_spec) - 1)

\* a refresh that resumed after the expiry and had to lower the index
IndexInRangeWitness ==
    /\ last.op = "refresh_done"
    /\ stopped
    /\ last.from > current_page
    /\ current_page = Len(embeds_spec) - 1

\* C2: a navigation event of the owner never changes the tile list and moves the
\* index from i to 0 (first), max(i-1, 0) (previous), min(i+1, n-1) (next) or
\* n-1 (last), n being the number of tiles; previous at 0 and next at n-1 do not wrap.
NavigationMoves ==
    [][(last'.op \in NavOps /\ last'.user = user_id) =>
          /\ embeds_spec' = embeds_spec
          /\ current_page' =
                CASE last'.op = "goto_top" -> 0
                  [] last'.op = "previous_page" -> Max(current_page - 1, 0)
                  [] last'.op = "next_page" ->
                        Min(current_page + 1, Len(embeds_spec) - 1)
                  [] last'.op = "goto_bottom" -> Len(embeds_spec) - 1]_vars

\* next pressed by the owner on the last of three tiles: the index stayed
NavigationMovesWitness ==
    /\ last.op = "next_page"
    /\ last.user = user_id
    /\ Len(embeds_spec) = 3
    /\ last.from = 2
    /\ current_page = 2

\* C3: a control event of anyone but the owner changes neither the index, the
\* tiles, the buttons nor the message, starts no refresh, and is answered by the
\* ephemeral rejection only; the view stays as it was for the events that follow.
UnauthorizedRejected ==
    [][(last'.op \in ControlOps /\ last'.user # user_id) =>
          /\ notice' = "not_your_view"
          /\ UNCHANGED <<pc, view, embeds_spec, current_page, total_pages, user_id,
                         message, items, stopped, expired, inflight, shown>>]_vars

\* the refresh button pressed by someone else while a refresh of the owner waits
UnauthorizedRejectedWitness ==
    /\ last.op = "refresh_data"
    /\ last.user # user_id
    /\ notice = "not_your_view"
    /\ inflight = 1
    /\ pc = "active"

\* C4: the tail of a refresh whose fetched text parses and builds to m > 0 tiles
\* replaces the tile list by those tiles and sets the index to min(index, m-1);
\* the index never grows.
RefreshReplacesAndClamps ==
    [][(last'.op = "refresh_done" /\ FetchedTiles(last'.fetched) # <<>>) =>
          /\ embeds_spec' = FetchedTiles(last'.fetched)
          /\ current_page' = Min(current_page, Len(FetchedTiles(last'.fetched)) - 1)
          /\ current_page' <= current_page]_vars

\* a refresh from three tiles, index 2, to two tiles: the index became 1
RefreshReplacesAndClampsWitness ==
    /\ last.op = "refresh_done"
    /\ last.fetched = Returns(TableText(Tab2))
    /\ embeds_spec = FetchedTiles(last.fetched)
    /\ last.from = 2
    /\ current_page = 1

\* C5: a refresh that ends by reporting a failure leaves the tile list and the
\* index as they were.
RefreshFailureKeepsState ==
    [][(last'.op = "refresh_done" /\ notice' \in RefreshFailures) =>
          /\ embeds_spec' = embeds_spec
          /\ current_page' = current_page]_vars

\* C6: once on_timeout has removed the buttons, no step puts buttons back on the
\* message or changes the tile list or the index.
ExpiredIsTerminal ==
    [][expired =>
          /\ expired'
          /\ ~shown'.controls.present
          /\ embeds_spec' = embeds_spec
          /\ current_page' = current_page]_vars

\* C10: the text "[]" is an empty result: display_embeds answers it with the
\* nothing-to-display notice, and a refresh with the no-data display without
\* buttons and without a refresh-failed report.
EmptyTableIsEmptyResult ==
    /\ (/\ last.op \in {"display_embeds", "display_fetched"}
        /\ last.fetched = Returns(TableText(<<>>)))
          => (pc = "ended" /\ shown.embed.tag = NoDataTag)
    /\ (/\ last.op = "refresh_done"
        /\ last.fetched = Returns(TableText(<<>>))
        /\ last.ok)
          => (notice = "none" /\ shown.embed.tag = NoDataTag
              /\ ~shown.controls.present)

\* the number of times a call occurs in a sequence of calls
Count(cs, c) == Cardinality({i \in 1..Len(cs) : cs[i] = c})

DisplayOps == {"display_embeds", "display_fetched"}
DisplayNotices ==
    {"Error: Failed to fetch data", "Error: No data provided",
     "Error: Failed to parse JSON data", NoDataTag}

\* C11: a run of display_embeds whose send succeeds has sent exactly one message
\* and called the refresh callback at most once, and only when json_string is
\* absent; when the data is missing, unparseable or builds to no tile, the
\* message is a notice and no view exists; when at least one tile is built, the
\* view exists at page 0, owned by the invoker, holding the builder's output.
DisplaySendsOneMessage ==
    (last.op \in DisplayOps /\ pc # "fetching" /\ last.ok) =>
        LET tiles == FetchedTiles(last.fetched)
        IN  /\ Count(calls, "followup.send") = 1
            /\ Count(calls, "refresh_callback") <= 1
            /\ Count(calls, "refresh_callback") = 1 => ~TextTruthy(json_string)
            /\ tiles = <<>> =>
                  (pc = "ended" /\ ~view /\ shown.embed.tag \in DisplayNotices)
            /\ tiles # <<>> =>
                  (/\ pc = "active" /\ view /\ current_page = 0
                   /\ user_id = invoker /\ embeds_spec = tiles
                   /\ shown.embed = create_discord_embed(tiles[1]))

\* C15: while a refresh_data of the view is suspended in refresh_callback, no
\* navigation handler, no second refresh_data and no on_timeout of the view runs.
RefreshRunsAlone ==
    [][inflight > 0 =>
          ~(/\ last'.op \in NavOps \cup {"refresh_data", "on_timeout"}
            /\ last'.user = user_id)]_vars

\* C16: a refresh whose data builds to no tile, and whose edit succeeds, leaves
\* the no-data notice without buttons on the message; once the message of a view
\* shows that notice, no step changes what the message shows.
NoDataIsTerminal ==
    [][/\ (/\ last'.op = "refresh_done"
            /\ last'.fetched = Returns(TableText(TabShort))
            /\ last'.ok)
              => (shown'.embed.tag = NoDataTag /\ ~shown'.controls.present)
       /\ (view /\ shown.embed.tag = NoDataTag) => shown' = shown]_vars

\* C17: the buttons of a constructed view always match its state: "<<" and "<"
\* are disabled exactly at index 0, ">" and ">>" exactly at the last index, the
\* label reads index+1 "/" number of tiles, and the refresh button is there
\* exactly when a refresh callback was given; the buttons a message carries
\* have the refresh button under the same condition.
ButtonsMatchState ==
    /\ view =>
          /\ items.top_disabled <=> current_page = 0
          /\ items.prev_disabled <=> current_page = 0
          /\ items.next_disabled <=> current_page = Len(embeds_spec) - 1
          /\ items.bottom_disabled <=> current_page = Len(embeds_spec) - 1
          /\ items.label = NatStr(current_page + 1) \o <<"/">> \o NatStr(Len(embeds_spec))
          /\ items.refresh <=> refresh_callback
    /\ shown.controls.present =>
          /\ shown.controls.items.refresh <=> refresh_callback
          /\ shown.controls.items.top_disabled <=> shown.controls.items.prev_disabled
          /\ shown.controls.items.next_disabled <=> shown.controls.items.bottom_disabled

\* the owner went to the last of three tiles of a view with a refresh callback
ButtonsMatchStateWitness ==
    /\ view
    /\ last.op = "goto_bottom"
    /\ last.ok
    /\ refresh_callback
    /\ Len(embeds_spec) = 3
    /\ current_page = 2
    /\ items.next_disabled
    /\ ~items.top_disabled
    /\ items.label = <<"3", "/", "3">>
    /\ shown.controls = WithView(items)

Responses == {"response.send_message", "response.edit_message", "response.defer"}

\* the number of initial responses among the calls of a handler
ResponseCount(cs) == Cardinality({i \in 1..Len(cs) : cs[i] \in Responses})

\* C20: every button event is answered by exactly one initial response (an
\* edit, a defer or the ephemeral rejection); a refresh of the owner defers and
\* only then calls the refresh callback.
OneResponseDeferFirst ==
    [][last'.op \in ControlOps =>
          /\ ResponseCount(calls') = 1
          /\ \A i \in 1..Len(calls') :
                calls'[i] = "refresh_callback" =>
                    \E j \in 1..(i - 1) : calls'[j] = "response.defer"
          /\ (last'.op = "refresh_data" /\ last'.user = user_id)
                => Count(calls', "refresh_callback") = 1]_vars

\* the owner pressed refresh: deferred, then the callback was called and is awaited
OneResponseDeferFirstWitness ==
    /\ last.op = "refresh_data"
    /\ last.user = user_id
    /\ inflight = 1
    /\ calls = <<"response.defer", "refresh_callback">>

\* C21: when on_timeout runs on a view whose message exists and its edit goes
\* through, the message shows the tile at the current page of the current list
\* with the expiry notice appended to that tile's footer, the footer shown is at
\* most 2048 characters long, and the message has no buttons.
ExpiryRendersCurrentTile ==
    [][(last'.op = "on_timeout" /\ message /\ last'.ok) =>
          LET spec == embeds_spec[current_page + 1]
          IN  /\ shown'.embed = [create_discord_embed(spec) EXCEPT
                                   !.footer = Some(spec.footer \o TimeoutNotice)]
              /\ Len(shown'.embed.footer.s) <= FooterCap
              /\ ~shown'.controls.present]_vars

\* C23: the /test command, once it has deferred, is inside display_embeds with
\* arguments display_embeds accepts (here: awaiting the first fetch), and it
\* does not end without a follow-up having been sent.
TestCommandReachesDisplay ==
    last.op = "test_command" =>
        /\ Head(calls) = "response.defer"
        /\ pc = "fetching"
        /\ pc \in {"ended", "raised"} => Count(calls, "followup.send") = 1

\* C24: in every state of a constructed view, whatever handlers have run and
\* however refreshes were interleaved with navigation and expiry, total_pages is
\* the length of embeds_spec.
PageCountIsLength ==
    view => total_pages = Len(embeds_spec)

\* a refresh from one tile to two ended while another refresh is still suspended
PageCountIsLengthWitness ==
    /\ view
    /\ last.op = "refresh_done"
    /\ last.fetched = Returns(TableText(Tab2))
    /\ inflight = 1
    /\ Len(embeds_spec) = 2
    /\ total_pages = 2
    /\ items.label = <<"1", "/", "2">>

(***************************************************************************)
(* Properties of the builder (checked under SpecBuild)                     *)
(***************************************************************************)
\* the rows of a table that have at least 7 columns, in order
LongRows(t) == SelectSeq(t, LAMBDA row : Len(row) >= MinCols)

RECURSIVE FieldChars(_)
FieldChars(fields) ==
    IF fields = <<>> THEN 0
    ELSE Len(Head(fields).name) + Len(Head(fields).value) + FieldChars(Tail(fields))

\* title + description + footer + author + all field names and values
TileChars(e) ==
    Len(e.title) + Len(e.description) + Len(e.footer)
    + (IF e.author.present THEN Len(e.author.s) ELSE 0) + FieldChars(e.fields)

HasScheme(s) == StartsWith(s, http) \/ StartsWith(s, https)

\* C7: every embed spec built has each part within its cap, at most 25 fields,
\* and at most 6000 characters in total.
TilesWithinLimits ==
    bpc = "built" =>
        \A i \in 1..Len(built.embeds) :
            LET e == built.embeds[i]
            IN  /\ Len(e.title) <= TitleCap
                /\ Len(e.description) <= DescCap
                /\ Len(e.footer) <= FooterCap
                /\ (e.author.present => Len(e.author.s) <= AuthorCap)
                /\ Len(e.fields) <= MaxFields
                /\ \A k \in 1..Len(e.fields) :
                        /\ Len(e.fields[k].name) <= NameCap
                        /\ Len(e.fields[k].value) <= ValueCap
                /\ TileChars(e) <= EmbedCap

\* C8: the builder gives one embed spec for each row of at least 7 columns, none
\* for a shorter row, in the order of the rows.
OneTilePerLongRow ==
    bpc = "built" =>
        /\ Len(built.embeds) = Len(LongRows(table))
        /\ \A i \in 1..Len(built.embeds) :
                built.embeds[i] = row_spec(LongRows(table)[i])

\* C9 as stated: a link cell that is a non-empty string not starting with
\* http:// or https:// gives no link, and a link is there only if the cell itself
\* starts with one of the two.
LinkOnlyIfCellHasScheme ==
    bpc = "built" =>
        \A i \in 1..Len(built.embeds) :
            \A p \in {<<2, built.embeds[i].title_url>>,
                      <<5, built.embeds[i].author_url>>} :
                LET cell == At(LongRows(table)[i], p[1])
                IN  /\ (cell.t = "str" /\ cell.s # <<>> /\ ~HasScheme(cell.s))
                          => ~p[2].present
                    /\ p[2].present => (cell.t = "str" /\ HasScheme(cell.s))

\* C9 as amended: the test is made on the cell's text with the whitespace at both
\* ends removed; a link that is there is that stripped text.
LinkOnlyIfStrippedCellHasScheme ==
    bpc = "built" =>
        \A i \in 1..Len(built.embeds) :
            \A p \in {<<2, built.embeds[i].title_url>>,
                      <<5, built.embeds[i].author_url>>} :
                LET cell == At(LongRows(table)[i], p[1])
                    stripped == Strip(Str(cell))
                IN  /\ (cell.t = "str" /\ cell.s # <<>> /\ ~HasScheme(stripped))
                          => ~p[2].present
                    /\ p[2].present => (HasScheme(stripped) /\ p[2].s = stripped)

\* a built row whose title link cell has a space before the scheme, and whose
\* author link cell is not a link
LinkOnlyIfStrippedCellHasSchemeWitness ==
    /\ bpc = "built"
    /\ \E i \in 1..Len(built.embeds) :
          /\ LongRows(table)[i] = RowSpace
          /\ built.embeds[i].title_url = Some(http \o <<"x">>)
          /\ ~built.embeds[i].author_url.present
    /\ \E i \in 1..Len(built.embeds) :
          /\ LongRows(table)[i] = RowFtp
          /\ ~built.embeds[i].title_url.present

\* C12: whatever the cells of the table hold, parse_embed_data returns a list
\* and does not raise: a color cell that is not an integer gives color 0 and no
\* row stops the rows after it from being built.
BuilderNeverRaises ==
    bpc = "built" =>
        /\ ~built.raised
        /\ \A i \in 1..Len(LongRows(table)) :
              /\ i <= Len(built.embeds)
              /\ IntOf(At(LongRows(table)[i], 3)).how # "ok"
                    => built.embeds[i].color = 0

(***************************************************************************)
(* Properties of the parser (checked under SpecParse)                      *)
(***************************************************************************)
\* the text decodes to a list all of whose elements are lists
IsTableText(text) ==
    /\ text.kind = "json"
    /\ text.value.t = "list"
    /\ \A i \in 1..Len(text.value.items) : text.value.items[i].t = "list"

\* C13: parse_json_cell returns a table exactly when the text is valid JSON for
\* a list whose elements are all lists, and then the table is all of its rows;
\* otherwise it returns None, never some of the rows.
ParserAllOrNothing ==
    bpc = "parsed" =>
        /\ parsed.ok <=> IsTableText(json_string)
        /\ parsed.ok =>
              /\ Len(parsed.data) = Len(json_string.value.items)
              /\ \A i \in 1..Len(parsed.data) :
                    parsed.data[i] = json_string.value.items[i].items
        /\ ~parsed.ok => parsed.data = <<>>

\* a list whose first elements are rows and whose last is not a list: None
ParserAllOrNothingWitness ==
    /\ bpc = "parsed"
    /\ json_string = JsonText(ListVal(<<RowVal(RowT("A")), RowVal(ShortRow), ScalarVal>>))
    /\ ~parsed.ok
    /\ parsed.data = <<>>

(***************************************************************************)
(* Properties of the field pairs (checked under SpecBuild)                 *)
(***************************************************************************)
Tilde == <<"~">>

\* the text of the name cell of the k-th pair (k from 1) of a row
NameCell(row, k) == Str(At(row, FirstField + 2 * (k - 1)))

\* C14: a pair whose name cell starts with "~" is full-width, and its name is the
\* cell's text after the "~", cut to 256 characters; when that name and the
\* value are both empty the pair is displayed no more than any other empty pair.
TildeIsFlagNotCharacter ==
    bpc = "built" =>
        \A i \in 1..Len(built.embeds) :
            \A k \in 1..Len(built.embeds[i].fields) :
                LET field == built.embeds[i].fields[k]
                    cell == NameCell(LongRows(table)[i], k)
                    name == Slice(Tail(cell), NameCap)
                IN  StartsWith(cell, Tilde) =>
                        IF name = <<>> /\ field.value = <<>>
                        THEN render_fields(<<field>>) = <<>>
                        ELSE /\ ~render_field(field).inline
                             /\ render_field(field).name =
                                    (IF name = <<>> THEN ZWSP ELSE name)

\* pair k (from 0) of a row as the loop builds it: both texts cut to their caps
ScanPair(row, k) ==
    [name |-> Slice(Str(At(row, FirstField + 2 * k)), NameCap),
     value |-> Slice(IF FirstField + 2 * k + 1 < Len(row)
                     THEN Str(At(row, FirstField + 2 * k + 1)) ELSE <<>>, ValueCap)]

\* the name column of pair k is in the row and some column from it up to
\* min(len(row), 57) is not empty (is truthy: 0, false and null are empty)
PairScanned(row, k) ==
    /\ FirstField + 2 * k < Len(row)
    /\ \E c \in (FirstField + 2 * k)..(Min(Len(row), FieldEnd) - 1) : Truthy(At(row, c))

ScannedPairs(row) == {k \in 0..(MaxFields - 1) : PairScanned(row, k)}

RECURSIVE PairChars(_, _)
\* the characters of the pairs 0..k-1 of a row
PairChars(row, k) ==
    IF k = 0 THEN 0
    ELSE PairChars(row, k - 1)
         + Len(ScanPair(row, k - 1).name) + Len(ScanPair(row, k - 1).value)

\* the 6000 limit does not cut the pairs of the row
CapAside(row, e) ==
    TileChars(e) - FieldChars(e.fields) + PairChars(row, Cardinality(ScannedPairs(row)))
        <= EmbedCap

\* C18: for a row whose pairs the 6000 limit does not cut, pair k (0..24) is in
\* the fields exactly when its name column is in the row and some column from
\* it up to min(len(row), 57) is not empty; the pairs are in column order, each
\* with the texts of its two columns, so an empty pair before a filled column is
\* there as an empty pair and columns from 57 on change nothing.
ScanEmitsUntilAllEmpty ==
    bpc = "built" =>
        \A i \in 1..Len(built.embeds) :
            LET row == LongRows(table)[i]
                e == built.embeds[i]
            IN  CapAside(row, e) =>
                    \A k \in 0..(MaxFields - 1) :
                        /\ k < Len(e.fields) <=> PairScanned(row, k)
                        /\ k < Len(e.fields) => e.fields[k + 1] = ScanPair(row, k)

\* a sparse row (an empty pair, then a filled one, then empty columns) and a row
\* whose only filled field columns are 57 and 58
ScanEmitsUntilAllEmptyWitness ==
    /\ bpc = "built"
    /\ table = <<RowSparse, RowBeyond>>
    /\ Len(built.embeds) = 2
    /\ Len(built.embeds[1].fields) = 2
    /\ built.embeds[1].fields[1] = [name |-> <<>>, value |-> <<>>]
    /\ built.embeds[2].fields = <<>>

\* C19: the fields of a row are the first pairs of its scan, unchanged and in
\* order; they fit in 6000 characters together with the fixed parts, and when
\* pairs of the scan are missing, the first missing one would not have fitted:
\* nothing after it is taken, even a pair that would fit.
CapKeepsPrefix ==
    bpc = "built" =>
        \A i \in 1..Len(built.embeds) :
            LET row == LongRows(table)[i]
                e == built.embeds[i]
                fixed == TileChars(e) - FieldChars(e.fields)
                n == Len(e.fields)
            IN  /\ n <= Cardinality(ScannedPairs(row))
                /\ \A k \in 0..(n - 1) : e.fields[k + 1] = ScanPair(row, k)
                /\ n > 0 => fixed + PairChars(row, n) <= EmbedCap
                /\ n < Cardinality(ScannedPairs(row))
                      => fixed + PairChars(row, n + 1) > EmbedCap

\* a row of three pairs: the first is kept, the second does not fit, the third
\* would fit and is dropped
CapKeepsPrefixWitness ==
    /\ bpc = "built"
    /\ table = <<RowFields>>
    /\ Cardinality(ScannedPairs(RowFields)) = 3
    /\ Len(built.embeds[1].fields) = 1
    /\ built.embeds[1].fields[1] = ScanPair(RowFields, 0)
    /\ TileChars(built.embeds[1]) + Len(ScanPair(RowFields, 2).name)
          + Len(ScanPair(RowFields, 2).value) <= EmbedCap

(***************************************************************************)
(* Properties of the renderer (checked under SpecBuild)                    *)
(***************************************************************************)
\* the fields of an embed spec that are not empty on both sides, in order
NonEmptyPairs(fields) ==
    SelectSeq(fields, LAMBDA f : ~(f.name = <<>> /\ f.value = <<>>))

\* C22: the embed made from an embed spec has one field, in order, for each
\* pair of the spec that is not empty on both sides and none for the others;
\* no name or value of a field is empty, an empty side being the zero-width
\* space; the author is set exactly when the author name or the author link is
\* there, with the zero-width space as name when only the link is.
RendererSkipsEmptyPairs ==
    bpc = "rendered" =>
        \A i \in 1..Len(rendered) :
            LET spec == built.embeds[i]
                embed == rendered[i]
                kept == NonEmptyPairs(spec.fields)
            IN  /\ Len(embed.fields) = Len(kept)
                /\ \A j \in 1..Len(embed.fields) :
                      /\ embed.fields[j].name # <<>>
                      /\ embed.fields[j].value # <<>>
                      /\ embed.fields[j].value =
                            (IF kept[j].value = <<>> THEN ZWSP ELSE kept[j].value)
                      /\ kept[j].name = <<>> => embed.fields[j].name = ZWSP
                      /\ (kept[j].name # <<>> /\ Head(kept[j].name) # "~")
                            => embed.fields[j].name = kept[j].name
                /\ embed.author.present <=> (spec.author.present \/ spec.author_url.present)
                /\ embed.author.present =>
                      /\ embed.author.url = spec.author_url
                      /\ embed.author.name =
                            (IF spec.author.present THEN spec.author.s ELSE ZWSP)

\* a row with an empty pair before a filled one, and a row with an author link
\* only and a pair that has only its name
RendererSkipsEmptyPairsWitness ==
    /\ bpc = "rendered"
    /\ table = <<RowSparse, RowLinkOnly>>
    /\ Len(built.embeds[1].fields) = 2
    /\ Len(rendered[1].fields) = 1
    /\ rendered[2].author = [present |-> TRUE, name |-> ZWSP, url |-> Some(https \o <<"y">>)]
    /\ rendered[2].fields = <<[name |-> <<"N">>, value |-> ZWSP, inline |-> TRUE]>>

====
